---- MODULE Spec2Model ----
(***************************************************************************)
(* Model of semver-parser's version module: version::parse, the Display    *)
(* impls of Version and Identifier, and the derived ordering.              *)
(*                                                                         *)
(* Strings are sequences of ASCII byte values.  A u64 is three base-10^7   *)
(* limbs, least significant first, so that the whole 64-bit range is       *)
(* representable; parsing and formatting a number are real conversions     *)
(* between a digit string and that value.                                  *)
(***************************************************************************)
EXTENDS Integers, Sequences, FiniteSets, TLC

\* ------------------------------------------------------------------------
\* Bytes
\* ------------------------------------------------------------------------
IsDigit(c) == c \in 48..57

IsIdentChar(c) == c = 45 \/ c \in 48..57 \/ c \in 65..90 \/ c \in 97..122

\* str::trim strips Unicode White_Space; on ASCII: \t \n \v \f \r and space
IsWhite(c) == c \in 9..13 \/ c = 32

Drop(s, n) == SubSeq(s, n + 1, Len(s))

RECURSIVE TrimStart(_)
TrimStart(s) ==
    IF s # <<>> /\ IsWhite(s[1]) THEN TrimStart(Tail(s)) ELSE s

RECURSIVE TrimEnd(_)
TrimEnd(s) ==
    IF s # <<>> /\ IsWhite(s[Len(s)]) THEN TrimEnd(SubSeq(s, 1, Len(s) - 1)) ELSE s

Trim(s) == TrimEnd(TrimStart(s))

\* ------------------------------------------------------------------------
\* u64
\* ------------------------------------------------------------------------
Base == 10 ^ 7

Zero == <<0, 0, 0>>

\* 2^64 - 1 = 18446744073709551615
U64Max == <<9551615, 4407370, 184467>>

\* Ordering of two machine integers
CmpNat(a, b) == IF a < b THEN "Less" ELSE IF a > b THEN "Greater" ELSE "Equal"

CmpU64(a, b) ==
    IF a[3] # b[3] THEN CmpNat(a[3], b[3])
    ELSE IF a[2] # b[2] THEN CmpNat(a[2], b[2])
    ELSE CmpNat(a[1], b[1])

\* v * 10 + d, carried through the limbs; the top limb is left unreduced
MulAdd(v, d) ==
    LET t0 == v[1] * 10 + d
        t1 == v[2] * 10 + (t0 \div Base)
        t2 == v[3] * 10 + (t1 \div Base)
    IN  <<t0 % Base, t1 % Base, t2>>

\* str::parse::<u64> on a run of digits: checked multiply-add, None on overflow
RECURSIVE ParseU64(_, _)
ParseU64(ds, acc) ==
    IF ds = <<>> THEN [ok |-> TRUE, val |-> acc]
    ELSE LET nxt == MulAdd(acc, ds[1] - 48)
         IN  IF CmpU64(nxt, U64Max) = "Greater" THEN [ok |-> FALSE, val |-> Zero]
             ELSE ParseU64(Tail(ds), nxt)

RECURSIVE DigitsOf(_)
DigitsOf(n) ==
    IF n < 10 THEN <<48 + n>> ELSE DigitsOf(n \div 10) \o <<48 + (n % 10)>>

RECURSIVE ZeroPad(_, _)
ZeroPad(ds, w) == IF Len(ds) >= w THEN ds ELSE ZeroPad(<<48>> \o ds, w)

\* u64's Display: decimal, no sign, no leading zeros
FmtU64(v) ==
    IF v[3] > 0 THEN DigitsOf(v[3]) \o ZeroPad(DigitsOf(v[2]), 7) \o ZeroPad(DigitsOf(v[1]), 7)
    ELSE IF v[2] > 0 THEN DigitsOf(v[2]) \o ZeroPad(DigitsOf(v[1]), 7)
    ELSE DigitsOf(v[1])

\* ------------------------------------------------------------------------
\* Recognizers (recognize.rs, common.rs)
\* ------------------------------------------------------------------------
\* <u8 as Recognize>::p : Some(1) when the slice starts with the byte; 0 is None
P(b, s) == IF s # <<>> /\ s[1] = b THEN 1 ELSE 0

RECURSIVE DigitRun(_)
DigitRun(s) == IF s # <<>> /\ IsDigit(s[1]) THEN 1 + DigitRun(Tail(s)) ELSE 0

RECURSIVE IdentRun(_)
IdentRun(s) == IF s # <<>> /\ IsIdentChar(s[1]) THEN 1 + IdentRun(Tail(s)) ELSE 0

NoMatch == [some |-> FALSE, val |-> Zero, len |-> 0]

numeric_identifier(s) ==
    LET run == DigitRun(s)
        num == ParseU64(SubSeq(s, 1, run), Zero)
    IN  IF run = 0 THEN NoMatch
        ELSE IF run > 1 /\ s[1] = 48 THEN NoMatch
        ELSE IF ~num.ok THEN NoMatch
        ELSE [some |-> TRUE, val |-> num.val, len |-> run]

\* ------------------------------------------------------------------------
\* Identifier and Version
\* ------------------------------------------------------------------------
Numeric(n) == [num |-> TRUE, n |-> n, str |-> <<>>]

AlphaNumeric(t) == [num |-> FALSE, n |-> Zero, str |-> t]

\* one dot-delimited token of a metadata list
classify(tok) ==
    LET m == numeric_identifier(tok)
    IN  IF m.some /\ m.len = Len(tok) THEN Numeric(m.val) ELSE AlphaNumeric(tok)

MetaErr == "Error parsing metadata: empty identifier"

\* parse_meta, were an empty identifier taken as an empty AlphaNumeric
RECURSIVE parse_meta_AllowEmpty(_, _, _)
parse_meta_AllowEmpty(s, pos, ids) ==
    LET run == IdentRun(Drop(s, pos))
        tok == SubSeq(s, pos + 1, pos + run)
        end == pos + run
    IN  IF P(46, Drop(s, end)) = 1
        THEN parse_meta_AllowEmpty(s, end + 1, Append(ids, classify(tok)))
        ELSE [ok |-> TRUE, ids |-> Append(ids, classify(tok)), len |-> end, msg |-> ""]

\* the identifiers after the marker: pos bytes of s are consumed so far
RECURSIVE parse_meta(_, _, _)
parse_meta(s, pos, ids) ==
    LET run == IdentRun(Drop(s, pos))
        tok == SubSeq(s, pos + 1, pos + run)
        end == pos + run
    IN  IF run = 0 THEN [ok |-> FALSE, ids |-> <<>>, len |-> 0, msg |-> MetaErr]
        ELSE IF P(46, Drop(s, end)) = 1
             THEN parse_meta(s, end + 1, Append(ids, classify(tok)))
             ELSE [ok |-> TRUE, ids |-> Append(ids, classify(tok)), len |-> end, msg |-> ""]

parse_optional_meta(s, marker) ==
    IF P(marker, s) = 0 THEN [ok |-> TRUE, ids |-> <<>>, len |-> 0, msg |-> ""]
    ELSE parse_meta(s, 1, <<>>)

\* ------------------------------------------------------------------------
\* version::parse, one step per statement group of the function body
\* ------------------------------------------------------------------------
Version(ma, mi, pa, pr, bu) ==
    [major |-> ma, minor |-> mi, patch |-> pa, pre |-> pr, build |-> bu]

\* Result<Version, String>: ver holds the Version of Ok, msg/rest the text of Err
Pending == [ok |-> FALSE, ver |-> {}, msg |-> "", rest |-> <<>>]

Ok(v) == [ok |-> TRUE, ver |-> {v}, msg |-> "", rest |-> <<>>]

Err(m, r) == [ok |-> FALSE, ver |-> {}, msg |-> m, rest |-> r]

Return(st, res) == [st EXCEPT !.pc = "done", !.result = res]

\* StartParse, were only the leading whitespace trimmed
StartParse_TrimStart(version) ==
    [s |-> TrimStart(version), i |-> 0, pc |-> "major",
     major |-> Zero, minor |-> Zero, patch |-> Zero,
     pre |-> <<>>, build |-> <<>>, result |-> Pending]

StartParse(version) ==
    [s |-> Trim(version), i |-> 0, pc |-> "major",
     major |-> Zero, minor |-> Zero, patch |-> Zero,
     pre |-> <<>>, build |-> <<>>, result |-> Pending]

\* StepMajor, were a major that is no number skipped and read as 0
StepMajor_Fallback(st) ==
    LET m == numeric_identifier(Drop(st.s, st.i))
    IN  IF st.pc # "major" THEN st
        ELSE IF m.some THEN [st EXCEPT !.i = @ + m.len, !.major = m.val, !.pc = "dot1"]
        ELSE [st EXCEPT !.i = @ + IdentRun(Drop(st.s, st.i)), !.pc = "dot1"]

StepMajor(st) ==
    LET m == numeric_identifier(Drop(st.s, st.i))
    IN  IF st.pc # "major" THEN st
        ELSE IF m.some THEN [st EXCEPT !.i = @ + m.len, !.major = m.val, !.pc = "dot1"]
        ELSE Return(st, Err("Error parsing major identifier", <<>>))

\* StepDot1, were the return on a missing dot left out
StepDot1_NoReturn(st) ==
    LET len == P(46, Drop(st.s, st.i))
    IN  IF st.pc # "dot1" THEN st
        ELSE [st EXCEPT !.i = @ + len, !.pc = "minor"]

StepDot1(st) ==
    LET len == P(46, Drop(st.s, st.i))
    IN  IF st.pc # "dot1" THEN st
        ELSE IF len # 0 THEN [st EXCEPT !.i = @ + len, !.pc = "minor"]
        ELSE Return(st, Err("Expected dot", <<>>))

StepMinor(st) ==
    LET m == numeric_identifier(Drop(st.s, st.i))
    IN  IF st.pc # "minor" THEN st
        ELSE IF m.some THEN [st EXCEPT !.i = @ + m.len, !.minor = m.val, !.pc = "dot2"]
        ELSE Return(st, Err("Error parsing minor identifier", <<>>))

StepDot2(st) ==
    LET len == P(46, Drop(st.s, st.i))
    IN  IF st.pc # "dot2" THEN st
        ELSE IF len # 0 THEN [st EXCEPT !.i = @ + len, !.pc = "patch"]
        ELSE Return(st, Err("Expected dot", <<>>))

StepPatch(st) ==
    LET m == numeric_identifier(Drop(st.s, st.i))
    IN  IF st.pc # "patch" THEN st
        ELSE IF m.some THEN [st EXCEPT !.i = @ + m.len, !.patch = m.val, !.pc = "pre"]
        ELSE Return(st, Err("Error parsing patch identifier", <<>>))

\* StepPre, were a marker without identifiers taken as an empty list
StepPre_AllowEmpty(st) ==
    LET r == parse_optional_meta(Drop(st.s, st.i), 45)
    IN  IF st.pc # "pre" THEN st
        ELSE IF r.ok THEN [st EXCEPT !.i = @ + r.len, !.pre = r.ids, !.pc = "build"]
        ELSE [st EXCEPT !.i = @ + 1, !.pc = "build"]

StepPre(st) ==
    LET r == parse_optional_meta(Drop(st.s, st.i), 45)
    IN  IF st.pc # "pre" THEN st
        ELSE IF r.ok THEN [st EXCEPT !.i = @ + r.len, !.pre = r.ids, !.pc = "build"]
        ELSE Return(st, Err(r.msg, <<>>))

\* StepBuild, were the build list looked for behind '-' as the pre list is
StepBuild_Dash(st) ==
    LET r == parse_optional_meta(Drop(st.s, st.i), 45)
    IN  IF st.pc # "build" THEN st
        ELSE IF r.ok THEN [st EXCEPT !.i = @ + r.len, !.build = r.ids, !.pc = "end"]
        ELSE Return(st, Err(r.msg, <<>>))

StepBuild(st) ==
    LET r == parse_optional_meta(Drop(st.s, st.i), 43)
    IN  IF st.pc # "build" THEN st
        ELSE IF r.ok THEN [st EXCEPT !.i = @ + r.len, !.build = r.ids, !.pc = "end"]
        ELSE Return(st, Err(r.msg, <<>>))

\* StepEnd, were the check for unconsumed input left out
StepEnd_NoCheck(st) ==
    IF st.pc # "end" THEN st
    ELSE Return(st, Ok(Version(st.major, st.minor, st.patch, st.pre, st.build)))

StepEnd(st) ==
    IF st.pc # "end" THEN st
    ELSE IF st.i # Len(st.s)
         THEN Return(st, Err("Extra junk after valid version: ", Drop(st.s, st.i)))
    ELSE Return(st, Ok(Version(st.major, st.minor, st.patch, st.pre, st.build)))

\* the whole function
parse(version) ==
    StepEnd(StepBuild(StepPre(StepPatch(StepDot2(StepMinor(StepDot1(StepMajor(
        StartParse(version))))))))).result

\* ------------------------------------------------------------------------
\* Display
\* ------------------------------------------------------------------------
\* FmtIdentifier, were the payload written with {:?}, in quotes
FmtIdentifier_Debug(id) == IF id.num THEN FmtU64(id.n) ELSE <<34>> \o id.str \o <<34>>

FmtIdentifier(id) == IF id.num THEN FmtU64(id.n) ELSE id.str

RECURSIVE Join(_, _)
Join(strs, sep) ==
    IF strs = <<>> THEN <<>>
    ELSE IF Len(strs) = 1 THEN strs[1]
    ELSE strs[1] \o sep \o Join(Tail(strs), sep)

FmtIds(ids) == Join([k \in 1..Len(ids) |-> FmtIdentifier(ids[k])], <<46>>)

\* FmtVersion, were the build list left out
FmtVersion_NoBuild(v) ==
    FmtU64(v.major) \o <<46>> \o FmtU64(v.minor) \o <<46>> \o FmtU64(v.patch)
    \o (IF v.pre # <<>> THEN <<45>> \o FmtIds(v.pre) ELSE <<>>)

FmtVersion(v) ==
    FmtU64(v.major) \o <<46>> \o FmtU64(v.minor) \o <<46>> \o FmtU64(v.patch)
    \o (IF v.pre # <<>> THEN <<45>> \o FmtIds(v.pre) ELSE <<>>)
    \o (IF v.build # <<>> THEN <<43>> \o FmtIds(v.build) ELSE <<>>)

\* ------------------------------------------------------------------------
\* derive(PartialOrd, Ord, PartialEq, Eq) on Identifier and Version
\* ------------------------------------------------------------------------
\* String's Ord: byte by byte, a strict prefix first
RECURSIVE CmpBytes(_, _)
CmpBytes(a, b) ==
    IF a = <<>> /\ b = <<>> THEN "Equal"
    ELSE IF a = <<>> THEN "Less"
    ELSE IF b = <<>> THEN "Greater"
    ELSE IF a[1] # b[1] THEN CmpNat(a[1], b[1])
    ELSE CmpBytes(Tail(a), Tail(b))

\* the derived Ord of the enum: by variant in declaration order, then by payload
CmpIdentifier(x, y) ==
    IF x.num /\ ~y.num THEN "Less"
    ELSE IF ~x.num /\ y.num THEN "Greater"
    ELSE IF x.num THEN CmpU64(x.n, y.n)
    ELSE CmpBytes(x.str, y.str)

\* Vec's Ord: element by element, a strict prefix first
RECURSIVE CmpIds(_, _)
CmpIds(xs, ys) ==
    IF xs = <<>> /\ ys = <<>> THEN "Equal"
    ELSE IF xs = <<>> THEN "Less"
    ELSE IF ys = <<>> THEN "Greater"
    ELSE IF CmpIdentifier(xs[1], ys[1]) # "Equal" THEN CmpIdentifier(xs[1], ys[1])
    ELSE CmpIds(Tail(xs), Tail(ys))

\* CmpVersion, were build metadata left out of the comparison
CmpVersion_NoBuild(a, b) ==
    IF CmpU64(a.major, b.major) # "Equal" THEN CmpU64(a.major, b.major)
    ELSE IF CmpU64(a.minor, b.minor) # "Equal" THEN CmpU64(a.minor, b.minor)
    ELSE IF CmpU64(a.patch, b.patch) # "Equal" THEN CmpU64(a.patch, b.patch)
    ELSE CmpIds(a.pre, b.pre)

\* the derived Ord of the struct: field by field in declaration order
CmpVersion(a, b) ==
    IF CmpU64(a.major, b.major) # "Equal" THEN CmpU64(a.major, b.major)
    ELSE IF CmpU64(a.minor, b.minor) # "Equal" THEN CmpU64(a.minor, b.minor)
    ELSE IF CmpU64(a.patch, b.patch) # "Equal" THEN CmpU64(a.patch, b.patch)
    ELSE IF CmpIds(a.pre, b.pre) # "Equal" THEN CmpIds(a.pre, b.pre)
    ELSE CmpIds(a.build, b.build)

\* ------------------------------------------------------------------------
\* Inputs
\* ------------------------------------------------------------------------
\* most identifiers in the pre and build lists of an input, taken together
MaxIds == 2

\* most whitespace bytes on either side of an input
MaxWs == 1

\* "18446744073709551615" = 2^64 - 1, and "18446744073709551616"
TokMax == <<49,56,52,52,54,55,52,52,48,55,51,55,48,57,53,53,49,54,49,53>>

TokOver == <<49,56,52,52,54,55,52,52,48,55,51,55,48,57,53,53,49,54,49,54>>

\* "", "0", "7", "01", "a", "7 ", "10000000", 2^64-1, 2^64
NumToks ==
    {<<>>, <<48>>, <<55>>, <<48,49>>, <<97>>, <<55,32>>,
     <<49,48,48,48,48,48,48,48>>, TokMax, TokOver}

\* "" and "."
Seps == {<<>>, <<46>>}

\* "", "0", "7", "01", "7a", "-", 2^64
IdToks == {<<>>, <<48>>, <<55>>, <<48,49>>, <<55,97>>, <<45>>, TokOver}

\* "", "!", " a", "+b", ".4"
Junk == {<<>>, <<33>>, <<32,97>>, <<43,98>>, <<46,52>>}

\* " \t\n\r ..." cut to n bytes
WsCycle == <<32, 9, 10, 13>>

Ws(n) == [k \in 1..n |-> WsCycle[((k - 1) % 4) + 1]]

TokLists(n) == UNION {[1..k -> IdToks] : k \in 0..n}

MetaText(marker, toks) == IF toks = <<>> THEN <<>> ELSE <<marker>> \o Join(toks, <<46>>)

\* major sep minor sep patch, each part well or ill formed
TripleCores ==
    {ma \o d1 \o mi \o d2 \o pa :
        ma \in NumToks, d1 \in Seps, mi \in NumToks, d2 \in Seps, pa \in NumToks}

\* "1.2.3" followed by a pre list, a build list and trailing bytes
MetaCores ==
    UNION {{<<49,46,50,46,51>> \o MetaText(45, p) \o MetaText(43, b) \o j :
                b \in TokLists(MaxIds - Len(p)), j \in Junk} :
           p \in TokLists(MaxIds)}

\* the triples padded on both sides, the lists padded at the end
Inputs ==
    {Ws(n1) \o c \o Ws(n2) : n1 \in 0..MaxWs, n2 \in 0..MaxWs, c \in TripleCores}
    \cup {c \o Ws(n2) : n2 \in 0..MaxWs, c \in MetaCores}

\* the versions that are compared: parse of
\*   {"0.7.10000000", "0.10000000.0"} x pre lists of "7", "10000000", "-"
\*   x build lists {"", "+a", "+ab", "+B"}
OrdTriples == {<<48,46,55,46,49,48,48,48,48,48,48,48>>, <<48,46,49,48,48,48,48,48,48,48,46,48>>}

OrdPreToks == {<<55>>, <<49,48,48,48,48,48,48,48>>, <<45>>}

OrdBuilds == {<<>>, <<43,97>>, <<43,97,98>>, <<43,66>>}

OrdTexts ==
    {tr \o MetaText(45, p) \o b :
        tr \in OrdTriples, p \in UNION {[1..k -> OrdPreToks] : k \in 0..MaxIds},
        b \in OrdBuilds}

VersionOf(res) == CHOOSE v \in res.ver : TRUE

Versions == {VersionOf(parse(x)) : x \in OrdTexts}

\* ------------------------------------------------------------------------
\* State
\* ------------------------------------------------------------------------
VARIABLES
    version,   \* the argument of parse
    s, i, pc, major, minor, patch, pre, build, result,   \* parse's locals and return value
    text,      \* the Display output of the parsed Version
    again,     \* the result of parsing text
    left, right,   \* two Versions under comparison
    ord        \* left.cmp(&right)

vars ==
    <<version, s, i, pc, major, minor, patch, pre, build, result, text, again,
      left, right, ord>>

Cur ==
    [s |-> s, i |-> i, pc |-> pc, major |-> major, minor |-> minor, patch |-> patch,
     pre |-> pre, build |-> build, result |-> result]

Become(st) ==
    /\ s' = st.s /\ i' = st.i /\ pc' = st.pc
    /\ major' = st.major /\ minor' = st.minor /\ patch' = st.patch
    /\ pre' = st.pre /\ build' = st.build /\ result' = st.result
    /\ UNCHANGED <<version, text, again, left, right, ord>>

Init ==
    /\ version \in Inputs
    /\ s = <<>> /\ i = 0 /\ pc = "start"
    /\ major = Zero /\ minor = Zero /\ patch = Zero
    /\ pre = <<>> /\ build = <<>> /\ result = Pending
    /\ text = <<>> /\ again = Pending
    /\ left = Version(Zero, Zero, Zero, <<>>, <<>>) /\ right = left /\ ord = "None"

Start == pc = "start" /\ Become(StartParse(version))

Major == pc = "major" /\ Become(StepMajor(Cur))

Dot1 == pc = "dot1" /\ Become(StepDot1(Cur))

Minor == pc = "minor" /\ Become(StepMinor(Cur))

Dot2 == pc = "dot2" /\ Become(StepDot2(Cur))

Patch == pc = "patch" /\ Become(StepPatch(Cur))

Pre == pc = "pre" /\ Become(StepPre(Cur))

Build == pc = "build" /\ Become(StepBuild(Cur))

End == pc = "end" /\ Become(StepEnd(Cur))

\* version.to_string() on a parsed Version
Format ==
    /\ pc = "done" /\ result.ok
    /\ text' = FmtVersion(VersionOf(result))
    /\ pc' = "formatted"
    /\ UNCHANGED <<version, s, i, major, minor, patch, pre, build, result, again, left, right, ord>>

\* parse(&version.to_string())
Reparse ==
    /\ pc = "formatted"
    /\ again' = parse(text)
    /\ pc' = "reparsed"
    /\ UNCHANGED <<version, s, i, major, minor, patch, pre, build, result, text, left, right, ord>>

Next ==
    \/ Start \/ Major \/ Dot1 \/ Minor \/ Dot2 \/ Patch \/ Pre \/ Build \/ End
    \/ Format \/ Reparse

Spec == Init /\ [][Next]_vars

\* two parsed Versions, to be compared
InitOrd ==
    /\ version = <<>>
    /\ s = <<>> /\ i = 0 /\ pc = "cmp"
    /\ major = Zero /\ minor = Zero /\ patch = Zero
    /\ pre = <<>> /\ build = <<>> /\ result = Pending
    /\ text = <<>> /\ again = Pending
    /\ left \in Versions /\ right \in Versions /\ ord = "None"

Compare ==
    /\ pc = "cmp"
    /\ ord' = CmpVersion(left, right)
    /\ pc' = "compared"
    /\ UNCHANGED <<version, s, i, major, minor, patch, pre, build, result, text, again,
                   left, right>>

NextOrd == Compare

SpecOrd == InitOrd /\ [][NextOrd]_vars

\* ------------------------------------------------------------------------
\* Vocabulary of the properties: the trimmed input read as text, with no use
\* of the parser
\* ------------------------------------------------------------------------
Done == pc \in {"done", "formatted", "reparsed"}

T == Trim(version)

DigitSet == 48..57

IdentSet == {45} \cup (48..57) \cup (65..90) \cup (97..122)

MetaSet == IdentSet \cup {46}

\* the end of the longest run of bytes of S that starts after the first k bytes of t
SpanEnd(t, k, S) ==
    IF k > Len(t) THEN k
    ELSE CHOOSE j \in k..Len(t) :
            /\ \A m \in (k + 1)..j : t[m] \in S
            /\ j = Len(t) \/ t[j + 1] \notin S

ByteAt(t, k, b) == k <= Len(t) /\ t[k] = b

LexGreater(a, b) ==
    \E k \in 1..Len(a) : a[k] > b[k] /\ \A m \in 1..(k - 1) : a[m] = b[m]

\* a run of digits that is no u64 written without leading zeros
BadNum(tok) ==
    \/ tok = <<>>
    \/ Len(tok) > 1 /\ tok[1] = 48
    \/ Len(tok) > Len(TokMax)
    \/ Len(tok) = Len(TokMax) /\ LexGreater(tok, TokMax)

\* a list text in which a marker or a dot is not followed by an identifier byte
EmptyTok(txt) ==
    \/ txt = <<>>
    \/ txt[1] = 46
    \/ txt[Len(txt)] = 46
    \/ \E k \in 1..(Len(txt) - 1) : txt[k] = 46 /\ txt[k + 1] = 46

\* t read as  tok1 . tok2 . tok3 [- preText] [+ buildText] rest
Scan(t) ==
    LET e1 == SpanEnd(t, 0, DigitSet)
        tok1 == SubSeq(t, 1, e1)
        dot1 == ByteAt(t, e1 + 1, 46)
        e2 == SpanEnd(t, e1 + 1, DigitSet)
        tok2 == SubSeq(t, e1 + 2, e2)
        dot2 == ByteAt(t, e2 + 1, 46)
        e3 == SpanEnd(t, e2 + 1, DigitSet)
        tok3 == SubSeq(t, e2 + 2, e3)
        ok1 == ~BadNum(tok1)
        ok2 == ok1 /\ dot1 /\ ~BadNum(tok2)
        ok3 == ok2 /\ dot2 /\ ~BadNum(tok3)
        hasPre == ByteAt(t, e3 + 1, 45)
        preEnd == IF hasPre THEN SpanEnd(t, e3 + 1, MetaSet) ELSE e3
        preText == SubSeq(t, e3 + 2, preEnd)
        hasBuild == ByteAt(t, preEnd + 1, 43)
        buildEnd == IF hasBuild THEN SpanEnd(t, preEnd + 1, MetaSet) ELSE preEnd
        buildText == SubSeq(t, preEnd + 2, buildEnd)
        preOk == ok3 /\ (hasPre => ~EmptyTok(preText))
        buildOk == preOk /\ (hasBuild => ~EmptyTok(buildText))
    IN  [tok1 |-> tok1, dot1 |-> dot1, tok2 |-> tok2, dot2 |-> dot2, tok3 |-> tok3,
         e1 |-> e1, e2 |-> e2, e3 |-> e3,
         ok1 |-> ok1, ok2 |-> ok2, tripleOk |-> ok3,
         hasPre |-> hasPre, preEnd |-> preEnd, preText |-> preText,
         hasBuild |-> hasBuild, buildEnd |-> buildEnd, buildText |-> buildText,
         preOk |-> preOk, buildOk |-> buildOk]

RECURSIVE Split(_)
Split(txt) ==
    LET dots == {k \in 1..Len(txt) : txt[k] = 46}
        d == CHOOSE k \in dots : \A m \in dots : k <= m
    IN  IF dots = {} THEN <<txt>>
        ELSE <<SubSeq(txt, 1, d - 1)>> \o Split(Drop(txt, d))

TheVer == VersionOf(result)

JunkMsg == "Extra junk after valid version: "

\* ------------------------------------------------------------------------
\* Properties of parse and Display
\* ------------------------------------------------------------------------
\* C1: round trip. Whenever parse succeeds with a Version, parsing that
\* Version's Display output succeeds too and gives a Version equal to it in
\* major, minor, patch, pre and build.
C1_RoundTrip ==
    pc = "reparsed" =>
        /\ again.ok
        /\ \A v \in result.ver : \A w \in again.ver :
              /\ w.major = v.major /\ w.minor = v.minor /\ w.patch = v.patch
              /\ w.pre = v.pre /\ w.build = v.build

\* "1.2.3-01+18446744073709551616" went through parse, Display and parse
C1_Witness ==
    /\ pc = "reparsed"
    /\ T = <<49,46,50,46,51,45,48,49,43>> \o TokOver
    /\ again.ok

\* C2: major, minor and patch are strictly numeric. parse fails when one of
\* them is empty, starts with a non-digit, has a leading zero before further
\* digits, or exceeds 2^64-1; a digit run without leading zero that fits is
\* taken, with exactly the value its digits denote.
C2_StrictTriple ==
    LET a == Scan(T)
    IN  /\ Done /\ ~a.ok1 => ~result.ok /\ result.ver = {}
        /\ Done /\ a.ok1 /\ a.dot1 /\ ~a.ok2 => ~result.ok /\ result.ver = {}
        /\ Done /\ a.ok2 /\ a.dot2 /\ ~a.tripleOk => ~result.ok /\ result.ver = {}
        /\ pc \notin {"start", "major"} /\ a.ok1 =>
              FmtU64(major) = a.tok1 /\ result.msg # "Error parsing major identifier"
        /\ pc \notin {"start", "major", "dot1", "minor"} /\ a.ok2 =>
              FmtU64(minor) = a.tok2 /\ result.msg # "Error parsing minor identifier"
        /\ pc \notin {"start", "major", "dot1", "minor", "dot2", "patch"} /\ a.tripleOk =>
              FmtU64(patch) = a.tok3 /\ result.msg # "Error parsing patch identifier"
        /\ Done /\ result.ok =>
              /\ a.tripleOk
              /\ FmtU64(TheVer.major) = a.tok1
              /\ FmtU64(TheVer.minor) = a.tok2
              /\ FmtU64(TheVer.patch) = a.tok3

\* "0.18446744073709551615.18446744073709551616" was rejected for its patch
C2_Witness ==
    /\ pc = "done"
    /\ T = <<48,46>> \o TokMax \o <<46>> \o TokOver
    /\ FmtU64(minor) = TokMax
    /\ ~result.ok

\* C5: parse returns Ok only with the cursor at the end of the trimmed input;
\* bytes left after the triple and the two lists give the extra-junk error,
\* whose message ends with exactly the unconsumed remainder.
C5_NoJunk ==
    Done =>
        LET a == Scan(T)
        IN  /\ result.ok => i = Len(T) /\ a.buildEnd = Len(T)
            /\ a.buildOk /\ a.buildEnd < Len(T) =>
                  result = Err(JunkMsg, Drop(T, a.buildEnd))
            /\ result.msg = JunkMsg =>
                  /\ i < Len(T)
                  /\ result.rest = Drop(T, i)
                  /\ SubSeq(T, 1, i) \o result.rest = T
                  /\ a.buildOk /\ i = a.buildEnd

\* "1.2.3 a" was rejected with remainder " a"
C5_Witness ==
    /\ pc = "done"
    /\ T = <<49,46,50,46,51,32,97>>
    /\ result = Err(JunkMsg, <<32,97>>)

\* C7: only surrounding whitespace is ignored. Padding the input with
\* whitespace on either side does not change the result, an input that is
\* empty after trimming fails, and no accepted input has whitespace inside.
C7_TrimOnly ==
    Done =>
        /\ result = parse(T)
        /\ \A n \in {<<0, MaxWs>>, <<MaxWs, 0>>, <<MaxWs, MaxWs>>} :
              parse(Ws(n[1]) \o version \o Ws(n[2])) = result
        /\ T = <<>> => ~result.ok
        /\ result.ok => \A k \in 1..Len(T) : ~IsWhite(T[k])

\* " 7.0.7 " was accepted as 7.0.7
C7_Witness ==
    /\ pc = "done"
    /\ version = <<32,55,46,48,46,55,32>>
    /\ result.ok
    /\ FmtU64(TheVer.patch) = <<55>>

\* every AlphaNumeric payload of ids is a non-empty string over [0-9A-Za-z-]
PayloadOk(ids) ==
    \A k \in 1..Len(ids) :
        ~ids[k].num => ids[k].str # <<>> /\ \A m \in 1..Len(ids[k].str) : ids[k].str[m] \in IdentSet

\* C8: in every Version parse returns, every AlphaNumeric identifier of pre
\* and build has a non-empty payload of bytes in [0-9A-Za-z-].
C8_Payload ==
    Done /\ result.ok => PayloadOk(TheVer.pre) /\ PayloadOk(TheVer.build)

\* "1.2.3-7a+-" was accepted with payloads "7a" and "-"
C8_Witness ==
    /\ pc = "done"
    /\ result.ok
    /\ TheVer.pre = <<AlphaNumeric(<<55,97>>)>>
    /\ TheVer.build = <<AlphaNumeric(<<45>>)>>

\* C10: Display inverts parse. Whenever parse succeeds, the Display output of
\* the Version is byte for byte the input with its surrounding whitespace
\* trimmed.
C10_ExactInverse ==
    pc \in {"formatted", "reparsed"} => text = T

\* " 10000000.0.18446744073709551615" was parsed and printed back
C10_Witness ==
    /\ pc = "formatted"
    /\ version = <<32,49,48,48,48,48,48,48,48,46,48,46>> \o TokMax
    /\ text = T

\* a token that is a u64 written without leading zeros
IsNumTok(tok) == (\A k \in 1..Len(tok) : tok[k] \in DigitSet) /\ ~BadNum(tok)

\* ids are the tokens of txt, in order, each in its variant
Classified(ids, txt) ==
    LET toks == Split(txt)
    IN  /\ Len(ids) = Len(toks)
        /\ \A k \in 1..Len(toks) :
              IF IsNumTok(toks[k])
              THEN ids[k].num /\ FmtU64(ids[k].n) = toks[k]
              ELSE ids[k] = AlphaNumeric(toks[k])

\* C3: every pre and build component is classified on its whole
\* dot-delimited token: Numeric(n) exactly when the token is all digits, has
\* no leading zero unless it is "0", and fits in 64 bits; otherwise parse
\* still succeeds and the component is AlphaNumeric with the token text
\* verbatim. The components stand in input order.
C3_Classification ==
    Done =>
        LET a == Scan(T)
        IN  /\ a.buildOk /\ a.buildEnd = Len(T) => result.ok
            /\ result.ok =>
                  /\ IF a.hasPre THEN Classified(TheVer.pre, a.preText)
                                 ELSE TheVer.pre = <<>>
                  /\ IF a.hasBuild THEN Classified(TheVer.build, a.buildText)
                                   ELSE TheVer.build = <<>>

\* "1.2.3-01+18446744073709551616" was accepted
C3_Witness ==
    /\ pc = "done"
    /\ T = <<49,46,50,46,51,45,48,49,43>> \o TokOver
    /\ result.ok
    /\ TheVer.pre = <<AlphaNumeric(<<48,49>>)>>
    /\ TheVer.build = <<AlphaNumeric(TokOver)>>

\* C4: empty metadata identifiers are rejected. With a '-' or '+' marker at
\* its place, or a '.' consumed inside a list, and then the end of input,
\* another '.', the other marker or a byte outside [0-9A-Za-z-], parse fails;
\* without the marker the list is empty, consumes no byte and is no error.
C4_EmptyMeta ==
    LET a == Scan(T)
    IN  /\ Done /\ a.tripleOk /\ a.hasPre /\ EmptyTok(a.preText) =>
              ~result.ok /\ result.ver = {}
        /\ Done /\ a.preOk /\ a.hasBuild /\ EmptyTok(a.buildText) =>
              ~result.ok /\ result.ver = {}
        /\ pc = "build" /\ ~a.hasPre => pre = <<>> /\ i = a.e3
        /\ pc = "end" /\ ~a.hasBuild => build = <<>> /\ i = a.preEnd
        /\ result.msg = MetaErr =>
              \/ a.hasPre /\ EmptyTok(a.preText)
              \/ a.hasBuild /\ EmptyTok(a.buildText)

\* "1.2.3-+7" was rejected for the empty identifier between the markers
C4_Witness ==
    /\ pc = "done"
    /\ T = <<49,46,50,46,51,45,43,55>>
    /\ ~result.ok
    /\ result.msg = MetaErr

ExpectedMsg(a, t) ==
    IF ~a.ok1 THEN "Error parsing major identifier"
    ELSE IF ~a.dot1 THEN "Expected dot"
    ELSE IF ~a.ok2 THEN "Error parsing minor identifier"
    ELSE IF ~a.dot2 THEN "Expected dot"
    ELSE IF ~a.tripleOk THEN "Error parsing patch identifier"
    ELSE IF ~a.buildOk THEN MetaErr
    ELSE IF a.buildEnd < Len(t) THEN JunkMsg
    ELSE ""

StepOrder == <<"start", "major", "dot1", "minor", "dot2", "patch", "pre", "build", "end", "done">>

Rank(p) == CHOOSE k \in 1..Len(StepOrder) : StepOrder[k] = p

\* the cursor and the locals hold what the steps up to the n-th have made of T
RunUpTo(n, a) ==
    /\ i = (IF n <= 2 THEN 0 ELSE IF n = 3 THEN a.e1 ELSE IF n = 4 THEN a.e1 + 1
            ELSE IF n = 5 THEN a.e2 ELSE IF n = 6 THEN a.e2 + 1
            ELSE IF n = 7 THEN a.e3 ELSE IF n = 8 THEN a.preEnd ELSE a.buildEnd)
    /\ n <= 2 => major = Zero
    /\ n <= 4 => minor = Zero
    /\ n <= 6 => patch = Zero
    /\ n <= 7 => pre = <<>>
    /\ n <= 8 => build = <<>>

\* the step whose failure the message reports
FailedAt(a, t) ==
    IF ~a.ok1 THEN 2 ELSE IF ~a.dot1 THEN 3 ELSE IF ~a.ok2 THEN 4 ELSE IF ~a.dot2 THEN 5
    ELSE IF ~a.tripleOk THEN 6 ELSE IF ~a.preOk THEN 7 ELSE IF ~a.buildOk THEN 8 ELSE 9

\* what a finished or running parse has done so far
C9_State ==
    LET a == Scan(T)
    IN  /\ Done =>
              /\ result.msg = ExpectedMsg(a, T)
              /\ result.ok <=> result.msg = ""
              /\ ~result.ok => result.ver = {}
              /\ RunUpTo(FailedAt(a, T), a)
        /\ pc \in {"major", "dot1", "minor", "dot2", "patch", "pre", "build", "end"} =>
              /\ result = Pending
              /\ RunUpTo(Rank(pc), a)

\* a step leads to the next step of the order, or returns
C9_Step ==
    \/ pc \in {"done", "formatted", "reparsed"}
    \/ pc' = StepOrder[Rank(pc) + 1] /\ result' = Pending
    \/ pc' = "done" /\ (~result'.ok \/ pc = "end")

\* C9: parse runs major, dot, minor, dot, patch, pre list, build list and the
\* end check in this order and stops at the first step that fails: the error
\* is that step's, no later step has run, and no Version comes with an error.
C9_StepOrder == []C9_State /\ [][C9_Step]_vars

\* "7.7" stopped at the second dot with minor read and patch not
C9_Witness ==
    /\ pc = "done"
    /\ T = <<55,46,55>>
    /\ result = Err("Expected dot", <<>>)
    /\ minor = <<7, 0, 0>>
    /\ i = 3

\* ------------------------------------------------------------------------
\* Properties of the ordering (under SpecOrd)
\* ------------------------------------------------------------------------
\* the order of two numbers, read off their decimal texts
NumLess(m, n) ==
    LET a == FmtU64(m)
        b == FmtU64(n)
    IN  Len(a) < Len(b) \/ (Len(a) = Len(b) /\ LexGreater(b, a))

\* xs before ys in the lexicographic order that ElemLess induces
LexLess(xs, ys, ElemLess(_, _)) ==
    \E k \in 0..Len(xs) :
        /\ k <= Len(ys)
        /\ \A m \in 1..k : xs[m] = ys[m]
        /\ \/ k = Len(xs) /\ k < Len(ys)
           \/ k < Len(xs) /\ k < Len(ys) /\ ElemLess(xs[k + 1], ys[k + 1])

ByteLess(a, b) == a < b

IdLess(x, y) ==
    \/ x.num /\ ~y.num
    \/ x.num /\ y.num /\ NumLess(x.n, y.n)
    \/ ~x.num /\ ~y.num /\ LexLess(x.str, y.str, ByteLess)

IdsLess(xs, ys) == LexLess(xs, ys, IdLess)

VersionLess(a, b) ==
    \/ NumLess(a.major, b.major)
    \/ a.major = b.major /\ NumLess(a.minor, b.minor)
    \/ a.major = b.major /\ a.minor = b.minor /\ NumLess(a.patch, b.patch)
    \/ a.major = b.major /\ a.minor = b.minor /\ a.patch = b.patch
       /\ IdsLess(a.pre, b.pre)
    \/ a.major = b.major /\ a.minor = b.minor /\ a.patch = b.patch
       /\ a.pre = b.pre /\ IdsLess(a.build, b.build)

SameTriple(a, b) == a.major = b.major /\ a.minor = b.minor /\ a.patch = b.patch

\* the versions made of the triple of a or b, the pre of a or b, the build of a or b
Mixes(a, b) ==
    {Version(x.major, x.minor, x.patch, y.pre, z.build) :
        x \in {a, b}, y \in {a, b}, z \in {a, b}}

\* C6: the order on Version is total and is the lexicographic order of
\* (major, minor, patch, pre, build): lists compare element by element with
\* a strict prefix first, Numeric before AlphaNumeric, numbers by value and
\* payloads as strings. A version without pre sorts before the same triple
\* with a pre list, and versions that differ only in build are unequal and
\* ordered by build.
C6_LexOrder ==
    pc = "compared" =>
        /\ ord \in {"Less", "Equal", "Greater"}
        /\ ord = "Less" <=> VersionLess(left, right)
        /\ ord = "Greater" <=> VersionLess(right, left)
        /\ ord = "Equal" <=> left = right
        /\ CmpVersion(right, left)
              = (IF ord = "Less" THEN "Greater" ELSE IF ord = "Greater" THEN "Less" ELSE "Equal")
        /\ \A c \in Mixes(left, right) :
              /\ ord # "Greater" /\ CmpVersion(right, c) # "Greater"
                    => CmpVersion(left, c) # "Greater"
              /\ CmpVersion(c, left) # "Greater" /\ ord # "Greater"
                    => CmpVersion(c, right) # "Greater"
        /\ SameTriple(left, right) /\ left.pre = <<>> /\ right.pre # <<>> => ord = "Less"
        /\ SameTriple(left, right) /\ left.pre = right.pre /\ left.build # right.build =>
              /\ ord # "Equal"
              /\ ord = "Less" <=> IdsLess(left.build, right.build)

\* 0.7.10000000+ab was found less than 0.7.10000000-7+a
C6_Witness ==
    /\ pc = "compared"
    /\ SameTriple(left, right)
    /\ left.pre = <<>> /\ left.build = <<AlphaNumeric(<<97,98>>)>>
    /\ right.pre = <<Numeric(<<7, 0, 0>>)>> /\ right.build = <<AlphaNumeric(<<97>>)>>
    /\ ord = "Less"

====
